---- MODULE Spec2Model ----
(***************************************************************************)
(* Model of the semantic-service core: the VectorStore backends            *)
(* (QDrantVectorStore, FaissVectorStore, PgVectorStore), IndexPipeline,    *)
(* text canonicalization, the chunkers and the ingest route.               *)
(*                                                                         *)
(* Conventions                                                             *)
(*  - A Python Optional is a set with at most one element ({} is None).    *)
(*  - A Python dict over metadata keys is a total function over MetaKeys   *)
(*    whose absent keys map to Absent.                                     *)
(*  - A hash (sha256, uuid5) is the tuple of its inputs under a tag: it is *)
(*    injective and never equal to its input.                              *)
(*  - Vectors are integer sequences on the coordinate axes, so the cosine  *)
(*    similarity Qdrant computes is an exact integer in -1..1.             *)
(***************************************************************************)
EXTENDS Integers, Sequences, FiniteSets, TLC

(***************************************************************************)
(* Bounds                                                                  *)
(***************************************************************************)
MaxBatch == 2      \* longest items list handed to one upsert call
MaxFresh == 2      \* uuid4 draws before the random-id branch is cut off
MaxTopK == 2       \* largest SearchQuery.top_k
MaxLen == 6        \* longest string handed to normalize_text
MaxDim == 3        \* longest vector handed to _extract_vector

(***************************************************************************)
(* Values                                                                  *)
(***************************************************************************)
Absent == {}
MetaKeys == {"source", "doc_type", "doc_id", "chunk_index", "page_number",
             "pdf_page_aware", "json_flattened", "html_extracted",
             "product", "checksum", "cooperative_id"}
NoMeta == [k \in MetaKeys |-> Absent]
\* the dict {"doc_type": doc_type, "doc_id": doc_id}, an argument {} leaving
\* the key out
Meta(doc_type, doc_id) ==
    [k \in MetaKeys |-> CASE k = "doc_type" -> doc_type
                          [] k = "doc_id" -> doc_id
                          [] OTHER -> Absent]

DocIds == {"d1", "d2"}
QVecs == {<<1, 0>>, <<0, 1>>}         \* query vectors

\* ingest.normalize.sha256 of a text
sha256(text) == <<"sha256", text>>
\* _chunk_id(*parts): sha256 of the parts joined by "|"
_chunk_id(checksum, tag) == <<"sha256", checksum, tag>>
EmptyId == <<>>                       \* the empty string, falsy in Python

\* models.Chunk
Chunk(cid, doc, text, meta) ==
    [chunk_id |-> cid, doc_id |-> doc, text |-> text, metadata |-> meta,
     page_number |-> {}, start_char |-> {}, end_char |-> {}]

\* models.EmbeddedChunk; the vector is whatever the embedder returned:
\* a plain list, an object with a .values attribute, or something else
EmbeddedChunk(chunk, kind, values) ==
    [chunk |-> chunk, vector |-> [kind |-> kind, values |-> values]]

C1Id == _chunk_id(sha256(<<"a">>), "t0")
C2Id == _chunk_id(sha256(<<"b">>), "t0")

\* The EmbeddedChunks the callers of the store hand to upsert: two versions
\* of one chunk, a chunk of another document whose metadata names the
\* first document, a chunk with an empty chunk_id, and a chunk whose
\* vector has an unsupported shape.
SampleItems ==
    { EmbeddedChunk(Chunk(C1Id, "d1", "a", Meta({"pdf"}, {})), "list", <<1, 0>>),
      EmbeddedChunk(Chunk(C1Id, "d1", "b", Meta({"pdf"}, {})), "values", <<0, 1>>),
      EmbeddedChunk(Chunk(C2Id, "d2", "b", Meta({"txt"}, {"d1"})), "list", <<-2, 0>>),
      EmbeddedChunk(Chunk(EmptyId, "d1", "a", Meta({"pdf"}, {})), "list", <<0, 1>>),
      EmbeddedChunk(Chunk(C2Id, "d1", "a", Meta({"pdf"}, {})), "other", <<>>) }

Batches == UNION {[1..n -> SampleItems] : n \in 0..MaxBatch}

\* models.SearchQuery
SearchQuery(top_k, min_score, filters) ==
    [top_k |-> top_k, min_score |-> min_score, filters |-> filters]
FilterSet == {NoMeta, Meta({"pdf"}, {}), Meta({}, {"d1"}), Meta({"pdf"}, {"d1"})}
MinScores == {{}, {1}}
Queries == {SearchQuery(k, m, f) : k \in 1..MaxTopK, m \in MinScores, f \in FilterSet}

Backends == {"qdrant", "faiss", "pgvector"}

VARIABLES
    points,    \* the Qdrant collection: point id -> [vector, payload]
    origin,    \* history: point id -> the Chunk.chunk_id it was upserted for
    fresh,     \* number of uuid4 ids drawn so far
    last,      \* the last VectorStore call and its arguments
    resp,      \* each backend's answer to the last call
    run,       \* the IndexPipeline.index calls in progress, by caller
    chk,       \* the last Chunker.chunk call of each caller, with its result
    norm,      \* the last normalize_text call: its input, result and checksum
    ing,       \* the ingest requests served, with what each produced
    prov,      \* the last QDrantVectorStore(...) construction and its collection
    ext        \* the last _extract_vector call: its argument and its outcome

\* the variables of the calls that leave the store alone
pure == <<chk, norm, prov, ext>>
store == <<points, origin, fresh, last, resp>>
vars == <<points, origin, fresh, last, resp, run, pure, ing>>

(***************************************************************************)
(* Helpers                                                                 *)
(***************************************************************************)
Min(a, b) == IF a < b THEN a ELSE b
Range(s) == {s[i] : i \in 1..Len(s)}

Dot(a, b) == a[1] * b[1] + a[2] * b[2]
ISqrt(n) == CHOOSE r \in 0..n : r * r = n
Norm(a) == ISqrt(Dot(a, a))
\* Distance.COSINE: the score of a hit
Cosine(a, b) == Dot(a, b) \div (Norm(a) * Norm(b))

\* the id derived from the checksum alone, the position tag left out
uuid5_of_checksum(cid) == <<"uuid5", cid[2]>>
\* uuid.uuid5(NAMESPACE_DNS, chunk_id) and the n-th uuid.uuid4()
uuid5(cid) == <<"uuid5", cid>>
uuid4(n) == <<"uuid4", <<n>>>>

Put(f, k, v) == [x \in DOMAIN f \cup {k} |-> IF x = k THEN v ELSE f[x]]
Restrict(f, S) == [x \in S |-> f[x]]
EmptyMap == [x \in {} |-> {}]

Ok == "ok"
Resp(e, r) == [err |-> e, ret |-> r]
Call(op, items, qvec, query, doc_id) ==
    [op |-> op, items |-> items, qvec |-> qvec, query |-> query, doc_id |-> doc_id]
NoQuery == SearchQuery(1, {}, NoMeta)

(***************************************************************************)
(* The Qdrant client (qdrant_client.QdrantClient), as the store uses it    *)
(***************************************************************************)
\* client.upsert(points=...): each point replaces the stored point of the
\* same id, in list order
RECURSIVE ClientUpsert(_, _)
ClientUpsert(pts, new) ==
    IF new = <<>> THEN pts
    ELSE ClientUpsert(Put(pts, Head(new).id,
                          [vector |-> Head(new).vector, payload |-> Head(new).payload]),
                      Tail(new))

\* Filter(must=[FieldCondition(key="metadata.<k>", match=MatchValue(v)), ...])
FilterMatch(payload, conditions) ==
    \A k \in MetaKeys : conditions[k] # Absent => payload.metadata[k] = conditions[k]

\* client.delete(points_selector=Filter(must=[doc_id == d]))
ClientDelete(pts, doc_id) ==
    Restrict(pts, {p \in DOMAIN pts : pts[p].payload.doc_id # doc_id})

\* client.search(query_vector, query_filter, limit): the limit best-scoring
\* points that pass the filter, best first; ties are broken by the server
ClientSearch(pts, qvec, query_filter, limit) ==
    LET E == {p \in DOMAIN pts :
                 query_filter = {} \/ (\E f \in query_filter : FilterMatch(pts[p].payload, f))}
        sc(p) == Cosine(qvec, pts[p].vector)
        n == Min(limit, Cardinality(E))
    IN  { hits \in [1..n -> E] :
            /\ \A i, j \in 1..n : i < j => hits[i] # hits[j] /\ sc(hits[i]) >= sc(hits[j])
            /\ \A p \in E \ Range(hits) : \A i \in 1..n : sc(hits[i]) >= sc(p) }

(***************************************************************************)
(* QDrantVectorStore                                                       *)
(***************************************************************************)
\* The shapes a vector comes in, by kind: a plain list or tuple of numbers, a
\* numpy array, an object with a .values attribute (a list, an array or a
\* tuple), a list of such objects, a non-empty list or array of vectors, a
\* list of strings or of None, a dict, a string, None, a number, and any
\* other object. values are the numbers inside, the first vector's when there
\* are several.
Supported == {"list", "tuple", "array", "values", "values_array", "values_tuple",
              "list_of_values"}
Unsupported == {"list_of_lists", "array2d", "list_of_str", "list_of_none",
                "dict", "str", "none", "scalar", "other"}
\* type(vector).__name__
TypeName(kind) ==
    CASE kind \in {"list", "list_of_values", "list_of_lists", "list_of_str",
                   "list_of_none"} -> "list"
      [] kind \in {"array", "array2d"} -> "ndarray"
      [] kind \in {"values", "values_array", "values_tuple"} -> "ContentEmbedding"
      [] kind = "scalar" -> "float"
      [] kind = "none" -> "NoneType"
      [] OTHER -> kind
VectorOut(ok, err, names, value) ==
    [ok |-> ok, err |-> err, names |-> names, value |-> value]
\* [float(v) for v in values] of numbers: the numbers, in order
Floats(values) == [i \in 1..Len(values) |-> values[i]]

\* _extract_vector: the list of floats, or the error raised: the ValueError
\* of case 5, which names the type, or what float() and list() raise
_extract_vector(vector) ==
    CASE vector.kind \in {"values", "values_array", "values_tuple"} ->
            VectorOut(TRUE, Ok, "", Floats(vector.values))
         \* hasattr(dict, "values"): the bound method, which list() cannot iterate
      [] vector.kind = "dict" -> VectorOut(FALSE, "TypeError", "", <<>>)
      [] vector.kind \in {"list", "list_of_values"} ->
            VectorOut(TRUE, Ok, "", Floats(vector.values))
         \* float() of a list or of None, float() of a string that is no number
      [] vector.kind \in {"list_of_lists", "list_of_none"} ->
            VectorOut(FALSE, "TypeError", "", <<>>)
      [] vector.kind = "list_of_str" -> VectorOut(FALSE, "ValueError", "", <<>>)
      [] vector.kind = "array" -> VectorOut(TRUE, Ok, "", Floats(vector.values))
      [] vector.kind = "array2d" -> VectorOut(FALSE, "TypeError", "", <<>>)
      [] vector.kind = "tuple" -> VectorOut(TRUE, Ok, "", Floats(vector.values))
      [] OTHER -> VectorOut(FALSE, "ValueError", TypeName(vector.kind), <<>>)

\* The vectors handed to _extract_vector: every shape, with the numbers of
\* a vector of up to MaxDim values.
Components == {-1, 0, 1}
Shapes ==
    {[kind |-> k, values |-> v] :
        k \in Supported \cup Unsupported,
        v \in UNION {[1..n -> Components] : n \in 0..MaxDim}}
NoExtraction ==
    [done |-> FALSE, vector |-> [kind |-> "list", values |-> <<>>],
     out |-> VectorOut(TRUE, Ok, "", <<>>)]

\* the id derived from a constant instead of the chunk_id
point_id_constant(chunk_id, n) ==
    IF chunk_id # EmptyId THEN uuid5(<<"chunk_id">>) ELSE uuid4(n + 1)

\* the point id of an item, n random ids having been drawn before it
point_id(chunk_id, n) ==
    IF chunk_id # EmptyId THEN uuid5(chunk_id) ELSE uuid4(n + 1)

\* the payload stored with a point
Payload(item, pid) ==
    [doc_id |-> item.chunk.doc_id,
     chunk_id |-> pid,
     text |-> item.chunk.text,
     metadata |-> item.chunk.metadata,
     page_number |-> item.chunk.page_number,
     start_char |-> item.chunk.start_char,
     end_char |-> item.chunk.end_char]

NumRandom(items) == Cardinality({i \in 1..Len(items) : items[i].chunk.chunk_id = EmptyId})

\* the loop of upsert: the PointStructs of the items, n random ids drawn so far
RECURSIVE BuildPoints(_, _)
BuildPoints(items, n) ==
    IF items = <<>> THEN <<>>
    ELSE LET item == Head(items)
             cid == item.chunk.chunk_id
             pid == point_id(cid, n)
         IN  <<[id |-> pid, src |-> cid,
                vector |-> _extract_vector(item.vector).value,
                payload |-> Payload(item, pid)]>>
             \o BuildPoints(Tail(items), IF cid = EmptyId THEN n + 1 ELSE n)

RECURSIVE NoteOrigin(_, _)
NoteOrigin(org, new) ==
    IF new = <<>> THEN org
    ELSE NoteOrigin(Put(org, Head(new).id, Head(new).src), Tail(new))

\* QDrantVectorStore.upsert: the error it raises (Ok when it returns)
UpsertError(items, clientOk) ==
    IF items = <<>> THEN "AttributeError"            \* print.warning(...)
    ELSE IF \E i \in 1..Len(items) : ~_extract_vector(items[i].vector).ok
         THEN LET i == CHOOSE j \in 1..Len(items) :
                          /\ ~_extract_vector(items[j].vector).ok
                          /\ \A h \in 1..(j - 1) : _extract_vector(items[h].vector).ok
              IN  _extract_vector(items[i].vector).err
    ELSE IF ~clientOk THEN "ClientError"
    ELSE Ok

\* QDrantVectorStore.upsert: the collection after the call
UpsertPoints(pts, items, n, clientOk) ==
    IF UpsertError(items, clientOk) = Ok
    THEN ClientUpsert(pts, BuildPoints(items, n))
    ELSE pts

\* the points selected by the doc_id of their metadata
DeletePoints_by_metadata(pts, doc_id) ==
    Restrict(pts, {p \in DOMAIN pts : pts[p].payload.metadata["doc_id"] # {doc_id}})
\* QDrantVectorStore.delete_by_doc
DeletePoints(pts, doc_id) == ClientDelete(pts, doc_id)

\* the filter never built
QueryFilter_none(query) == {}
\* QDrantVectorStore.query: the filter and the limit handed to the client
QueryFilter(query) ==
    IF \E k \in MetaKeys : query.filters[k] # Absent THEN {query.filters} ELSE {}
\* top_k not read: the default of getattr
QueryLimit_default(query) == 10
QueryLimit(query) == query.top_k

\* QDrantVectorStore.query: a hit converted to a SearchResult
SearchResult(pts, qvec, p) ==
    [doc_id |-> pts[p].payload.doc_id,
     chunk_id |-> pts[p].payload.chunk_id,
     text |-> pts[p].payload.text,
     score |-> Cosine(qvec, pts[p].vector),
     metadata |-> pts[p].payload.metadata,
     page_number |-> {},
     vector |-> {}]

\* QDrantVectorStore.query: the result lists it may return
QueryResults(pts, qvec, query) ==
    { [i \in 1..Len(hits) |-> SearchResult(pts, qvec, hits[i])] :
        hits \in ClientSearch(pts, qvec, QueryFilter(query), QueryLimit(query)) }

\* VectorParams(size=vector_size if vector_size < 128 else 768)
SmallSize == 128
FixedSize == 768
CollectionSize(vector_size) == IF vector_size < SmallSize THEN vector_size ELSE FixedSize

\* The embedding models a store is built with: the length of their vectors
\* and what embed_texts returns, objects with .values or plain lists.
Dims == {2, 3, 127, 128, 129, 768, 1536, 3072}
Embedders == {[kind |-> k, dim |-> d] : k \in {"values", "list"}, d \in Dims}
\* __init__: len(self._extract_vector(embedding_model.embed_texts("..."))),
\* the argument being the list of embeddings: the first one's .values are
\* read; a list of lists makes float() raise TypeError
DetectSize(embedding_model) ==
    IF embedding_model.kind = "values" THEN [err |-> Ok, size |-> embedding_model.dim]
    ELSE [err |-> "TypeError", size |-> 0]
\* QDrantVectorStore.__init__: the error, self.vector_size and the size of
\* the collection afterwards (existing is the collection found, if any)
Built(vector_size, embedding_model, existing) ==
    LET found == IF vector_size # {} THEN [err |-> Ok, size |-> CHOOSE v \in vector_size : TRUE]
                 ELSE DetectSize(embedding_model)
    IN  [done |-> TRUE, arg |-> vector_size, embedder |-> embedding_model,
         existed |-> existing, err |-> found.err,
         vector_size |-> IF found.err = Ok THEN {found.size} ELSE {},
         collection |-> IF found.err = Ok /\ existing = {}
                        THEN {CollectionSize(found.size)} ELSE existing]
NotBuilt ==
    [done |-> FALSE, arg |-> {}, embedder |-> [kind |-> "values", dim |-> 2],
     existed |-> {}, err |-> Ok, vector_size |-> {}, collection |-> {}]

(***************************************************************************)
(* FaissVectorStore and PgVectorStore                                      *)
(***************************************************************************)
\* every FaissVectorStore method raises NotImplementedError
FaissCall(op) == Resp("NotImplementedError", {})

\* PgVectorStore defines index_chunks, search and delete_by_document_ids
\* only; upsert, query and delete_by_doc are the inherited bodies of the
\* VectorStore protocol ("..."), which return None
PgCall(op) == Resp(Ok, {})

(***************************************************************************)
(* Text canonicalization (ingest.normalize)                                *)
(***************************************************************************)
\* A string is the sequence of its characters; a letter or a word stands for
\* any run of characters that are not white space.
Chars == {"a", " ", "\t", "\r", "\n"}
Example ==
    <<"Hello", " ", "world.", "\n", "\n", "\n",
      "This", " ", "is", " ", " ", " ", "a", " ", "test.">>
Strings == UNION {[1..n -> Chars] : n \in 0..MaxLen} \cup {Example}

\* text.replace("\r\n", "\n")
RECURSIVE ReplaceCRLF(_)
ReplaceCRLF(text) ==
    IF text = <<>> THEN <<>>
    ELSE IF Len(text) >= 2 /\ text[1] = "\r" /\ text[2] = "\n"
         THEN <<"\n">> \o ReplaceCRLF(Tail(Tail(text)))
    ELSE <<Head(text)>> \o ReplaceCRLF(Tail(text))
\* text.replace("\r", "\n")
ReplaceCR(text) == [i \in 1..Len(text) |-> IF text[i] = "\r" THEN "\n" ELSE text[i]]

\* the length of the longest prefix of text made of characters of S
RECURSIVE RunLen(_, _)
RunLen(text, S) ==
    IF text = <<>> \/ Head(text) \notin S THEN 0 ELSE 1 + RunLen(Tail(text), S)
Drop(text, n) == SubSeq(text, n + 1, Len(text))

\* re.sub(r"[ \t]+", " ", text)
RECURSIVE CollapseBlanks(_)
CollapseBlanks(text) ==
    IF text = <<>> THEN <<>>
    ELSE IF Head(text) \in {" ", "\t"}
         THEN <<" ">> \o CollapseBlanks(Drop(text, RunLen(text, {" ", "\t"})))
    ELSE <<Head(text)>> \o CollapseBlanks(Tail(text))

\* re.sub(r"\n{3,}", "\n\n", text)
RECURSIVE CollapseNewlines(_)
CollapseNewlines(text) ==
    IF text = <<>> THEN <<>>
    ELSE IF RunLen(text, {"\n"}) >= 3
         THEN <<"\n", "\n">> \o CollapseNewlines(Drop(text, RunLen(text, {"\n"})))
    ELSE IF Head(text) = "\n"
         THEN SubSeq(text, 1, RunLen(text, {"\n"}))
              \o CollapseNewlines(Drop(text, RunLen(text, {"\n"})))
    ELSE <<Head(text)>> \o CollapseNewlines(Tail(text))

Whitespace == {" ", "\t", "\r", "\n"}
Reverse(text) == [i \in 1..Len(text) |-> text[Len(text) + 1 - i]]
\* str.strip()
strip(text) ==
    LET lead == RunLen(text, Whitespace)
        trail == RunLen(Reverse(text), Whitespace)
    IN  IF lead = Len(text) THEN <<>> ELSE SubSeq(text, lead + 1, Len(text) - trail)

\* the carriage returns replaced last
normalize_text_late_cr(text) ==
    strip(ReplaceCR(ReplaceCRLF(CollapseNewlines(CollapseBlanks(text)))))
\* the blank lines are not collapsed
normalize_text_keep_lines(text) ==
    strip(CollapseBlanks(ReplaceCR(ReplaceCRLF(text))))
\* normalize_text
normalize_text(text) ==
    strip(CollapseNewlines(CollapseBlanks(ReplaceCR(ReplaceCRLF(text)))))

(***************************************************************************)
(* Chunking, embedding and IndexPipeline                                   *)
(***************************************************************************)
\* To the splitter a letter or a word stands for a run of text one chunk
\* long, so that every one of them becomes a piece.
DocTexts == {<<"a", "b">>, <<"b">>, <<" ">>}
Runs == {"r1", "r2"}

\* models.NormalizedDocument with its DocumentRef; the checksum is computed as
\* the ingest route computes it, the sha256 of the text
NormalizedDocument(doc_id, doc_type, text) ==
    [ref |-> [doc_id |-> doc_id, doc_type |-> doc_type, checksum |-> sha256(text)],
     text |-> text, pages |-> {}]
Documents == {NormalizedDocument(d, "txt", t) : d \in DocIds, t \in DocTexts}

\* RecursiveCharacterTextSplitter.split_text: the non-blank pieces, in order
split_text(text) == SelectSeq(text, LAMBDA piece : piece \notin Whitespace)

\* _merge_meta: {**base_metadata, **extra}
_merge_meta(base_metadata, extra) ==
    [k \in MetaKeys |-> IF extra[k] # Absent THEN extra[k] ELSE base_metadata[k]]

\* the ids derived from the doc_id instead of the checksum
TextChunk_by_doc_id(doc, base_metadata) ==
    LET pieces == split_text(doc.text)
    IN  [n \in 1..Len(pieces) |->
            Chunk(_chunk_id(doc.ref.doc_id, "t" \o ToString(n - 1)),
                  doc.ref.doc_id,
                  pieces[n],
                  _merge_meta(base_metadata,
                              [k \in MetaKeys |->
                                  CASE k = "chunk_index" -> {n - 1}
                                    [] k = "doc_type" -> {doc.ref.doc_type}
                                    [] OTHER -> Absent]))]
\* TextChunker.chunk
TextChunk(doc, base_metadata) ==
    LET pieces == split_text(doc.text)
    IN  [n \in 1..Len(pieces) |->
            Chunk(_chunk_id(doc.ref.checksum, "t" \o ToString(n - 1)),
                  doc.ref.doc_id,
                  pieces[n],
                  _merge_meta(base_metadata,
                              [k \in MetaKeys |->
                                  CASE k = "chunk_index" -> {n - 1}
                                    [] k = "doc_type" -> {doc.ref.doc_type}
                                    [] OTHER -> Absent]))]

\* the dict {k: v}
Single(k, v) == [x \in MetaKeys |-> IF x = k THEN {v} ELSE Absent]
\* str.strip() of a text leaves nothing
IsBlank(text) == strip(text) = <<>>
\* the chunks of a TextChunker re-issued by a wrapping chunker: position n
\* gets the id of the tag f"{prefix}{n - 1}" and the keys of extra
Rewrap(doc, chunks, prefix, extra) ==
    [n \in 1..Len(chunks) |->
        [chunks[n] EXCEPT !.chunk_id = _chunk_id(doc.ref.checksum,
                                                 prefix \o ToString(n - 1)),
                          !.metadata = _merge_meta(@, extra)]]

\* a parsed JSON value: a dict (its items are <<key, value>> pairs, in order), a
\* list, a string, or another scalar with its str() ("" for None)
JDict(items) == [type |-> "dict", items |-> items, str |-> ""]
JList(items) == [type |-> "list", items |-> items, str |-> ""]
JString(str) == [type |-> "str", items |-> <<>>, str |-> str]
JScalar(str) == [type |-> "scalar", items |-> <<>>, str |-> str]
JsonA == "{\"a\": {\"b\": 2}}"
JsonB == "[\"a\", null]"
JsonC == "5"
JsonT == "{\"text\": \"b\"}"
JsonTexts == {JsonA, JsonB, JsonC, JsonT}
\* json.loads of a text: the parsed value, or nothing when it raises
json_loads(text) ==
    CASE text = <<JsonA>> -> {JDict(<< <<"a", JDict(<< <<"b", JScalar("2")>> >>)>> >>)}
      [] text = <<JsonB>> -> {JList(<<JString("a"), JScalar("")>>)}
      [] text = <<JsonC>> -> {JScalar("5")}
      [] text = <<JsonT>> -> {JDict(<< <<"text", JString("b")>> >>)}
      [] OTHER -> {}
\* json.dumps(obj, ensure_ascii=False)
json_dumps(obj) == <<CHOOSE t \in JsonTexts : json_loads(<<t>>) = {obj}>>

RECURSIVE Flat(_)
Flat(seqs) == IF seqs = <<>> THEN <<>> ELSE Head(seqs) \o Flat(Tail(seqs))
\* _flatten_json: the (path, value) pairs of a parsed value
RECURSIVE _flatten_json(_, _)
_flatten_json(obj, prefix) ==
    CASE obj.type = "dict" ->
            Flat([i \in 1..Len(obj.items) |->
                    _flatten_json(obj.items[i][2],
                                  IF prefix # "" THEN prefix \o "." \o obj.items[i][1]
                                  ELSE obj.items[i][1])])
      [] obj.type = "list" ->
            Flat([i \in 1..Len(obj.items) |->
                    _flatten_json(obj.items[i], prefix \o "[" \o ToString(i - 1) \o "]")])
      [] OTHER -> IF prefix # "" THEN << <<prefix, obj.str>> >> ELSE <<>>

\* "\n".join(lines)
RECURSIVE JoinLines(_)
JoinLines(lines) ==
    IF lines = <<>> THEN <<>>
    ELSE IF Len(lines) = 1 THEN lines[1]
    ELSE lines[1] \o <<"\n">> \o JoinLines(Tail(lines))
\* JsonChunker.chunk: the text "\n".join(path: value lines).strip()
Flattened(obj) ==
    LET pairs == SelectSeq(_flatten_json(obj, ""), LAMBDA pv : pv[2] # "")
    IN  strip(JoinLines([i \in 1..Len(pairs) |-> <<pairs[i][1] \o ": " \o pairs[i][2]>>]))

JsonPrefix == "j"
\* JsonChunker.chunk
JsonChunk(doc, base_metadata) ==
    LET parsed == json_loads(doc.text)
    IN  IF parsed = {} THEN TextChunk(doc, base_metadata)
        ELSE LET obj == CHOOSE o \in parsed : TRUE
                 proxy == [doc EXCEPT !.text = Flattened(obj), !.pages = {}]
             IN  Rewrap(doc, TextChunk(proxy, base_metadata), JsonPrefix,
                        Single("json_flattened", TRUE))

HtmlA == "<h1>a</h1><p>b</p><li>c</li>"
HtmlB == "<script>a</script><p> </p>"
\* BeautifulSoup: the h1, h2, h3, p and li elements of a text outside script,
\* style and noscript, each with its stripped text
find_all(text) ==
    CASE text = <<HtmlA>> -> <<[name |-> "h1", text |-> "a"], [name |-> "p", text |-> "b"],
                              [name |-> "li", text |-> "c"]>>
      [] text = <<HtmlB>> -> <<[name |-> "p", text |-> ""]>>
      [] OTHER -> <<>>
\* HtmlChunker.chunk: the block of an element with text
Block(el) ==
    IF el.name \in {"h1", "h2", "h3"} THEN <<"\n", "\n", "## " \o el.text, "\n">>
    ELSE <<el.text>>
\* HtmlChunker.chunk: "\n".join(blocks).strip()
Extracted(els) ==
    LET found == SelectSeq(els, LAMBDA el : el.text # "")
    IN  strip(JoinLines([i \in 1..Len(found) |-> Block(found[i])]))

HtmlPrefix == "h"
\* HtmlChunker.chunk
HtmlChunk(doc, base_metadata) ==
    LET proxy == [doc EXCEPT !.text = Extracted(find_all(doc.text)), !.pages = {}]
    IN  Rewrap(doc, TextChunk(proxy, base_metadata), HtmlPrefix,
               Single("html_extracted", TRUE))

\* the fallback chunks tagged as the chunks of a TextChunker
PdfFallbackPrefix_text == "t"
PdfFallbackPrefix == "p0_"
PagePrefix(page_idx) == "p" \o ToString(page_idx) \o "_"
\* the pages numbered from 0
PdfPage_zero_based(doc, base_metadata, page_idx, page_text) ==
    LET proxy == [doc EXCEPT !.text = page_text, !.pages = {}]
        page_chunks == TextChunk(proxy, _merge_meta(base_metadata,
                                                    Single("page_number", page_idx - 1)))
    IN  [n \in 1..Len(page_chunks) |->
            [Rewrap(doc, page_chunks, PagePrefix(page_idx),
                    [k \in MetaKeys |-> CASE k = "pdf_page_aware" -> {TRUE}
                                          [] k = "page_number" -> {page_idx - 1}
                                          [] OTHER -> Absent])[n]
                EXCEPT !.page_number = {page_idx - 1}, !.start_char = {}, !.end_char = {}]]
\* PdfChunker.chunk: the chunks of one non-blank page
PdfPage(doc, base_metadata, page_idx, page_text) ==
    LET proxy == [doc EXCEPT !.text = page_text, !.pages = {}]
        page_chunks == TextChunk(proxy, _merge_meta(base_metadata,
                                                    Single("page_number", page_idx)))
    IN  [n \in 1..Len(page_chunks) |->
            [Rewrap(doc, page_chunks, PagePrefix(page_idx),
                    [k \in MetaKeys |-> CASE k = "pdf_page_aware" -> {TRUE}
                                          [] k = "page_number" -> {page_idx}
                                          [] OTHER -> Absent])[n]
                EXCEPT !.page_number = {page_idx}, !.start_char = {}, !.end_char = {}]]
\* PdfChunker.chunk
PdfChunk(doc, base_metadata) ==
    IF doc.pages = {} \/ doc.pages = {<<>>}
    THEN Rewrap(doc, TextChunk(doc, base_metadata), PdfFallbackPrefix,
                Single("pdf_page_aware", FALSE))
    ELSE LET pages == CHOOSE ps \in doc.pages : TRUE
         IN  Flat([page_idx \in 1..Len(pages) |->
                     IF IsBlank(pages[page_idx]) THEN <<>>
                     ELSE PdfPage(doc, base_metadata, page_idx, pages[page_idx])])

\* RouterChunker.chunk of build_default_chunker
RouterChunk(doc, base_metadata) ==
    CASE doc.ref.doc_type = "json" -> JsonChunk(doc, base_metadata)
      [] doc.ref.doc_type = "html" -> HtmlChunk(doc, base_metadata)
      [] doc.ref.doc_type = "pdf" -> PdfChunk(doc, base_metadata)
      [] OTHER -> TextChunk(doc, base_metadata)

(***************************************************************************)
(* Ingestion: readers, the ingest route and DocumentNormalizer             *)
(***************************************************************************)
\* An Optional[str] is a set with at most one string; a file is its bytes,
\* one per character, Invalid a byte that is not UTF-8.
Invalid == "0xFF"
Truthy(opt) == opt # {} /\ opt # {<<>>}
Val(opt) == CHOOSE v \in opt : TRUE
Extract(err, text) == [err |-> err, text |-> text]

\* readers.read_txt: data.decode("utf-8", errors="ignore")
read_txt(data) == SelectSeq(data, LAMBDA c : c # Invalid)

\* obj[key] of a parsed dict, when the key is there
Get(obj, key) ==
    IF obj.type # "dict" THEN {}
    ELSE {obj.items[i][2] : i \in {j \in 1..Len(obj.items) : obj.items[j][1] = key}}
\* readers.read_json
read_json(data) ==
    LET parsed == json_loads(read_txt(data))
        obj == Val(parsed)
        text == Get(obj, "text")
        inner == UNION {Get(d, "text") : d \in Get(obj, "data")}
    IN  IF parsed = {} THEN Extract("JSONDecodeError", <<>>)
        ELSE IF \E t \in text : t.type = "str" THEN Extract(Ok, <<Val(text).str>>)
        ELSE IF \E t \in inner : t.type = "str" THEN Extract(Ok, <<Val(inner).str>>)
        ELSE Extract(Ok, json_dumps(obj))

PdfA == "%PDF-1.4 (a) (b)"
\* pypdf.PdfReader(...).pages with the text of each page, or nothing when
\* the bytes are not a PDF file and PdfReader raises
PdfPages(data) == IF data = <<PdfA>> THEN {<< <<"a">>, <<"b">> >>} ELSE {}
\* readers.read_pdf
read_pdf(data) ==
    IF PdfPages(data) = {} THEN Extract("PdfReadError", <<>>)
    ELSE Extract(Ok, JoinLines(Val(PdfPages(data))))

\* _extract_text_from_file (the route's and the normalizer's are the same)
_extract_text_from_file(doc_type, data) ==
    CASE doc_type \in {"txt", "csv", "html"} -> Extract(Ok, read_txt(data))
      [] doc_type = "json" -> read_json(data)
      [] doc_type = "pdf" -> read_pdf(data)
      [] OTHER -> Extract("HTTP400", <<>>)

\* schemas.IngestRequest
IngestRequest(doc_type, raw_text, json_text) ==
    [doc_type |-> doc_type, raw_text |-> raw_text, json_text |-> json_text]

\* ingest_document: the text source chosen
RouteSource(payload, file) ==
    IF Truthy(payload.raw_text) THEN "raw_text"
    ELSE IF Truthy(payload.json_text) THEN "json_text"
    ELSE IF file # {} THEN "file"
    ELSE "none"
\* the structured text tried first
NormalizeSource_json_first(payload, file_input) ==
    IF Truthy(payload.json_text) THEN "json_text"
    ELSE IF Truthy(payload.raw_text) THEN "raw_text"
    ELSE IF file_input # {} THEN "file"
    ELSE "none"
\* DocumentNormalizer.normalize: the text source chosen
NormalizeSource(payload, file_input) ==
    IF Truthy(payload.raw_text) THEN "raw_text"
    ELSE IF Truthy(payload.json_text) THEN "json_text"
    ELSE IF file_input # {} THEN "file"
    ELSE "none"

\* the text of the chosen source, or the HTTPException(422) of no source
SourceText(source, payload, file) ==
    CASE source = "raw_text" -> Extract(Ok, Val(payload.raw_text))
      [] source = "json_text" -> Extract(Ok, Val(payload.json_text))
      [] source = "file" -> _extract_text_from_file(payload.doc_type, Val(file))
      [] OTHER -> Extract("HTTP422", <<>>)

Outcome(err, source, doc) == [err |-> err, source |-> source, doc |-> doc]
\* the pages of a PDF file handed on with the text
Normalized_with_pages(source, payload, file, doc_id, created_at) ==
    LET got == SourceText(source, payload, file)
        text == normalize_text(got.text)
    IN  IF got.err # Ok THEN Outcome(got.err, source, {})
        ELSE IF text = <<>> THEN Outcome("HTTP400", source, {})
        ELSE Outcome(Ok, source,
                     {[ref |-> [doc_id |-> doc_id, doc_type |-> payload.doc_type,
                                checksum |-> sha256(text), created_at |-> created_at],
                       text |-> text,
                       pages |-> IF source = "file" /\ payload.doc_type = "pdf"
                                 THEN PdfPages(Val(file)) ELSE {}]})
\* normalize, validate, checksum, DocumentRef and NormalizedDocument (pages is
\* never passed)
Normalized(source, payload, file, doc_id, created_at) ==
    LET got == SourceText(source, payload, file)
        text == normalize_text(got.text)
    IN  IF got.err # Ok THEN Outcome(got.err, source, {})
        ELSE IF text = <<>> THEN Outcome("HTTP400", source, {})
        ELSE Outcome(Ok, source,
                     {[ref |-> [doc_id |-> doc_id, doc_type |-> payload.doc_type,
                                checksum |-> sha256(text), created_at |-> created_at],
                       text |-> text, pages |-> {}]})

\* ingest_document up to the NormalizedDocument
RouteNormalized(payload, file, doc_id, created_at) ==
    Normalized(RouteSource(payload, file), payload, file, doc_id, created_at)
\* DocumentNormalizer.normalize
normalize(payload, file_input, doc_id, created_at) ==
    Normalized(NormalizeSource(payload, file_input), payload, file_input, doc_id, created_at)

\* The requests: each doc_type with and without each source; texts that need
\* normalizing, that are JSON or not, that are white space only; files that
\* are text, JSON, PDF.
Requests == {1, 2}
DocTypes == {"txt", "json", "pdf", "raw"}
RawTexts == {{}, {<<>>}, {<<" ">>}, {<<"a", " ", " ", "b", "\r", "\n">>}}
JsonFields == {{}, {<<JsonA>>}, {<<"b">>}}
Files == {{}, {<<"b", Invalid>>}, {<<JsonT>>}, {<<PdfA>>}}
Payloads == {IngestRequest(t, r, j) : t \in DocTypes, r \in RawTexts, j \in JsonFields}
\* str(uuid.uuid4()) of the k-th request, and of the k-th normalize call
DocId(k) == "d" \o ToString(k)
NormId(k) == "n" \o ToString(k)
NoRequest ==
    [done |-> FALSE, payload |-> IngestRequest("txt", {}, {}), file |-> {},
     route |-> Outcome(Ok, "none", {}), normalizer |-> Outcome(Ok, "none", {}),
     chunks |-> <<>>, status |-> Ok]

\* deps.get_index_pipeline: metadata = {"source": "semantic_api"}
BaseMeta == [k \in MetaKeys |-> IF k = "source" THEN {"semantic_api"} ELSE Absent]

\* The documents and base_metadata dicts handed to the chunkers: text-like,
\* JSON (valid and not), HTML and PDF documents, the PDF ones with and
\* without pages (one of them blank); dicts with and without the keys the
\* strategies set themselves.
ChunkSlots == {1, 2}
TypedTexts ==
    {<<"txt", <<"a", "b">>>>, <<"txt", <<"b">>>>, <<"txt", <<" ">>>>, <<"csv", <<"b">>>>,
     <<"json", <<JsonA>>>>, <<"json", <<JsonB>>>>, <<"json", <<JsonC>>>>,
     <<"json", <<"a", "b">>>>,
     <<"html", <<HtmlA>>>>, <<"html", <<HtmlB>>>>, <<"html", <<"b">>>>}
PageLists == {<<>>, <<<<"a">>, <<" ">>, <<"a", "\n", "b">>>>, <<<<"b">>>>}
ChunkDocs ==
    {NormalizedDocument(d, tt[1], tt[2]) : d \in DocIds, tt \in TypedTexts}
    \cup {[NormalizedDocument(d, "pdf", t) EXCEPT !.pages = pg] :
             d \in DocIds, t \in {<<"a", "b">>, <<"b">>},
             pg \in {{}} \cup {{ps} : ps \in PageLists}}
CallerMeta ==
    [k \in MetaKeys |-> CASE k = "source" -> {"crm"}
                          [] k = "doc_type" -> {"policy"}
                          [] k = "chunk_index" -> {7}
                          [] OTHER -> Absent]
ChunkBases == {NoMeta, BaseMeta, CallerMeta, Single("page_number", 9)}
NoChunkCall == [doc |-> {}, base |-> NoMeta, out |-> <<>>, baseAfter |-> NoMeta]

\* the vector the embedding model computes for a text
EmbedVec(text) == IF text = "a" THEN <<1, 0>> ELSE <<0, 1>>
\* Embedder.embed_texts when it returns: one vector per text, in order
embed_texts(texts) ==
    [i \in 1..Len(texts) |-> [kind |-> "values", values |-> EmbedVec(texts[i])]]

\* IndexPipeline.index: [EmbeddedChunk(c, v) for c, v in zip(chunks, vectors)]
Pair(chunks, vectors) ==
    [i \in 1..Min(Len(chunks), Len(vectors)) |-> [chunk |-> chunks[i], vector |-> vectors[i]]]

IdleRun ==
    [pc |-> "idle", doc |-> {}, chunks |-> <<>>, vectors |-> <<>>, embedded |-> <<>>,
     embedCalls |-> 0, upsertCalls |-> 0, chunkErr |-> Ok, embedErr |-> Ok,
     storeErr |-> Ok, ret |-> {}]

\* metadata.coopwise.CoopWiseMetadataBuilder(cooperative_id="c1")
CoopWise == [builder |-> "CoopWiseMetadataBuilder", cooperative_id |-> "c1"]
\* CoopWiseMetadataBuilder.build_document_metadata(ref), for the fields of
\* ref the model carries
build_document_metadata(builder, ref) ==
    [k \in MetaKeys |-> CASE k = "product" -> {"coopwise"}
                          [] k = "doc_type" -> {ref.doc_type}
                          [] k = "checksum" -> {ref.checksum}
                          [] k = "cooperative_id" -> {builder.cooperative_id}
                          [] OTHER -> Absent]
\* the object is a dict, which {**base_metadata, **extra} can unpack
IsMapping(metadata) == DOMAIN metadata = MetaKeys
\* IndexPipeline.index: base_meta = self.metadata;
\* chunks = self.chunker.chunk(doc, base_metadata=base_meta). The chunkers
\* merge into base_metadata once for every piece, which raises TypeError
\* when it is not a mapping.
IndexChunks(doc, metadata) ==
    IF IsMapping(metadata) THEN [err |-> Ok, chunks |-> RouterChunk(doc, metadata)]
    ELSE IF RouterChunk(doc, NoMeta) = <<>> THEN [err |-> Ok, chunks |-> <<>>]
    ELSE [err |-> "TypeError", chunks |-> <<>>]

\* the call goes on to upsert although the embedder raised
AfterEmbed_swallow(rec, ok) ==
    [rec EXCEPT !.pc = "embedded",
                !.embedCalls = @ + 1,
                !.embedErr = IF ok THEN Ok ELSE "EmbedError",
                !.vectors = IF ok THEN embed_texts([i \in 1..Len(rec.chunks) |-> rec.chunks[i].text])
                            ELSE <<>>]
\* IndexPipeline.index after self.embedder.embed_texts(...): an exception of
\* the embedder leaves index at once
AfterEmbed(rec, ok) ==
    IF ok
    THEN [rec EXCEPT !.pc = "embedded",
                     !.embedCalls = @ + 1,
                     !.vectors = embed_texts([i \in 1..Len(rec.chunks) |-> rec.chunks[i].text])]
    ELSE [rec EXCEPT !.pc = "failed",
                     !.embedCalls = @ + 1,
                     !.embedErr = "EmbedError"]

\* IndexPipeline.index after self.store.upsert(embedded): return len(embedded),
\* or the exception of upsert
AfterUpsert(rec, embedded, err) ==
    [rec EXCEPT !.pc = IF err = Ok THEN "done" ELSE "failed",
                !.embedded = embedded,
                !.upsertCalls = @ + 1,
                !.storeErr = err,
                !.ret = IF err = Ok THEN {Len(embedded)} ELSE {}]

(***************************************************************************)
(* Actions                                                                 *)
(***************************************************************************)
Init ==
    /\ points = EmptyMap
    /\ origin = EmptyMap
    /\ fresh = 0
    /\ last = Call("init", <<>>, <<>>, NoQuery, "")
    /\ resp = [b \in Backends |-> Resp(Ok, {})]
    /\ run = [r \in Runs |-> IdleRun]
    /\ chk = [s \in ChunkSlots |-> NoChunkCall]
    /\ norm = [input |-> <<>>, output |-> {}, checksum |-> {}, again |-> {}]
    /\ ing = [k \in Requests |-> NoRequest]
    /\ prov = NotBuilt
    /\ ext = NoExtraction

Answers(op, q) == [b \in Backends |->
    CASE b = "qdrant" -> q [] b = "faiss" -> FaissCall(op) [] OTHER -> PgCall(op)]

\* store.upsert(items) on each backend
Upsert(items, clientOk) ==
    /\ fresh + NumRandom(items) <= MaxFresh
    /\ LET err == UpsertError(items, clientOk)
           new == BuildPoints(items, fresh)
       IN  /\ points' = UpsertPoints(points, items, fresh, clientOk)
           /\ origin' = IF err = Ok THEN NoteOrigin(origin, new) ELSE origin
           /\ fresh' = IF err = Ok THEN fresh + NumRandom(items) ELSE fresh
           /\ resp' = Answers("upsert", Resp(err, {}))
    /\ last' = Call("upsert", items, <<>>, NoQuery, "")

\* store.delete_by_doc(doc_id) on each backend
DeleteByDoc(doc_id) ==
    /\ points' = DeletePoints(points, doc_id)
    /\ origin' = Restrict(origin, DOMAIN points')
    /\ resp' = Answers("delete_by_doc", Resp(Ok, {}))
    /\ last' = Call("delete_by_doc", <<>>, <<>>, NoQuery, doc_id)
    /\ UNCHANGED fresh

\* store.query(qvec, query) on each backend
Query(qvec, query) ==
    /\ \E results \in QueryResults(points, qvec, query) :
          resp' = Answers("query", Resp(Ok, {results}))
    /\ last' = Call("query", <<>>, qvec, query, "")
    /\ UNCHANGED <<points, origin, fresh>>

\* IndexPipeline.index(doc), up to the call of the embedder: chunk
IndexChunk(r, doc) ==
    /\ run[r].pc \in {"idle", "done", "failed"}
    /\ run' = [run EXCEPT ![r] = [IdleRun EXCEPT !.pc = "chunked",
                                                 !.doc = {doc},
                                                 !.chunks = RouterChunk(doc, BaseMeta)]]
    /\ UNCHANGED <<points, origin, fresh, last, resp>>

\* IndexPipeline.index: the embedder returns the vectors or raises
IndexEmbed(r, ok) ==
    /\ run[r].pc = "chunked"
    /\ run' = [run EXCEPT ![r] = AfterEmbed(run[r], ok)]
    /\ UNCHANGED <<points, origin, fresh, last, resp>>

\* IndexPipeline.index: pair, upsert and return
IndexStore(r, clientOk) ==
    /\ run[r].pc = "embedded"
    /\ LET embedded == Pair(run[r].chunks, run[r].vectors)
       IN  /\ Upsert(embedded, clientOk)
           /\ run' = [run EXCEPT ![r] = AfterUpsert(run[r], embedded,
                                                    UpsertError(embedded, clientOk))]

\* the calls of any user of a VectorStore, the storage client answering
\* (its failures are part of SpecIndex)
Next ==
    \/ \E items \in Batches : Upsert(items, TRUE) /\ UNCHANGED <<run, pure, ing>>
    \/ \E doc_id \in DocIds : DeleteByDoc(doc_id) /\ UNCHANGED <<run, pure, ing>>
    \/ \E qvec \in QVecs, query \in Queries : Query(qvec, query) /\ UNCHANGED <<run, pure, ing>>

Spec == Init /\ [][Next]_vars

\* documents indexed through IndexPipeline, by two callers at a time
NextIndex ==
    \/ \E r \in Runs, doc \in Documents : IndexChunk(r, doc) /\ UNCHANGED <<pure, ing>>
    \/ \E r \in Runs, ok \in BOOLEAN : IndexEmbed(r, ok) /\ UNCHANGED <<pure, ing>>
    \/ \E r \in Runs, clientOk \in BOOLEAN : IndexStore(r, clientOk) /\ UNCHANGED <<pure, ing>>

SpecIndex == Init /\ [][NextIndex]_vars

\* PDF documents, with and without pages, indexed by one caller and then
\* searched
PagedDocs ==
    {doc \in ChunkDocs :
        doc.ref.doc_type = "pdf" /\ doc.ref.doc_id = "d1" /\ doc.text = <<"a", "b">>}
NextPaged ==
    \/ \E doc \in PagedDocs : IndexChunk("r1", doc) /\ UNCHANGED <<pure, ing>>
    \/ \E ok \in BOOLEAN : IndexEmbed("r1", ok) /\ UNCHANGED <<pure, ing>>
    \/ \E clientOk \in BOOLEAN : IndexStore("r1", clientOk) /\ UNCHANGED <<pure, ing>>
    \/ \E qvec \in QVecs, query \in Queries :
          Query(qvec, query) /\ UNCHANGED <<run, pure, ing>>

SpecPaged == Init /\ [][NextPaged]_vars

\* IndexPipeline.index(doc) of a pipeline built with metadata, up to the call
\* of the embedder
IndexChunkWith(r, doc, metadata) ==
    /\ run[r].pc \in {"idle", "done", "failed"}
    /\ LET made == IndexChunks(doc, metadata)
       IN  run' = [run EXCEPT ![r] =
                     [IdleRun EXCEPT !.pc = IF made.err = Ok THEN "chunked" ELSE "failed",
                                     !.doc = {doc},
                                     !.chunkErr = made.err,
                                     !.chunks = made.chunks]]
    /\ UNCHANGED store

\* documents indexed through IndexPipeline(metadata=CoopWiseMetadataBuilder)
NextIndexBuilder ==
    \/ \E r \in Runs, doc \in Documents :
          IndexChunkWith(r, doc, CoopWise) /\ UNCHANGED <<pure, ing>>
    \/ \E r \in Runs, ok \in BOOLEAN : IndexEmbed(r, ok) /\ UNCHANGED <<pure, ing>>
    \/ \E r \in Runs, clientOk \in BOOLEAN : IndexStore(r, clientOk) /\ UNCHANGED <<pure, ing>>

SpecIndexBuilder == Init /\ [][NextIndexBuilder]_vars

\* Chunker.chunk(doc, base_metadata=base) of the default router, one call
\* per caller; the dict handed in is read only ({**base_metadata, **extra}
\* builds a new one)
ChunkCall(s, doc, base) ==
    /\ chk[s].doc = {}
    /\ chk' = [chk EXCEPT ![s] = [doc |-> {doc}, base |-> base,
                                  out |-> RouterChunk(doc, base), baseAfter |-> base]]
    /\ UNCHANGED <<store, run, norm, prov, ext, ing>>

\* documents chunked by two callers
NextChunk ==
    \E s \in ChunkSlots, doc \in ChunkDocs, base \in ChunkBases : ChunkCall(s, doc, base)

SpecChunk == Init /\ [][NextChunk]_vars

\* the ingest route on a text, once: text = normalize_text(text);
\* checksum = sha256(text); and normalize_text on the text it returned
Normalize(text) ==
    /\ norm' = [input |-> text,
                output |-> {normalize_text(text)},
                checksum |-> {sha256(normalize_text(text))},
                again |-> {normalize_text(normalize_text(text))}]
    /\ UNCHANGED <<store, run, chk, prov, ext, ing>>

NextNormalize == norm.output = {} /\ \E text \in Strings : Normalize(text)

SpecNormalize == Init /\ [][NextNormalize]_vars

\* QDrantVectorStore(client, name, embedding_model, vector_size), the client
\* having a collection of that name or not
Construct(vector_size, embedding_model, existing) ==
    /\ prov' = Built(vector_size, embedding_model, existing)
    /\ UNCHANGED <<store, run, chk, norm, ext, ing>>

NextProvision ==
    /\ ~prov.done
    /\ \E vector_size \in {{}} \cup {{d} : d \in Dims}, embedding_model \in Embedders,
          existing \in {{}, {2}, {FixedSize}} :
            Construct(vector_size, embedding_model, existing)

SpecProvision == Init /\ [][NextProvision]_vars

\* store._extract_vector(vector), once
ExtractVector(vector) ==
    /\ ext' = [done |-> TRUE, vector |-> vector, out |-> _extract_vector(vector)]
    /\ UNCHANGED <<store, run, chk, norm, prov, ing>>

NextExtract == ~ext.done /\ \E vector \in Shapes : ExtractVector(vector)

SpecExtract == Init /\ [][NextExtract]_vars

\* POST /v1/documents/ingest, the k-th request: normalize, then
\* pipeline.index(normalized), any exception of which becomes
\* HTTPException(500); beside it, what DocumentNormalizer.normalize makes of
\* the same payload
Ingest(k, payload, file, ok) ==
    LET made == RouteNormalized(payload, file, DocId(k), k)
        doc == Val(made.doc)
        chunks == RouterChunk(doc, BaseMeta)
        rec == AfterEmbed([IdleRun EXCEPT !.doc = made.doc, !.chunks = chunks], ok)
        embedded == Pair(chunks, rec.vectors)
        served(status, cs) ==
            [done |-> TRUE, payload |-> payload, file |-> file, route |-> made,
             normalizer |-> normalize(payload, file, NormId(k), k),
             chunks |-> cs, status |-> status]
    IN  /\ ~ing[k].done
        /\ \A j \in Requests : j < k => ing[j].done
        /\ IF made.doc = {}
           THEN ing' = [ing EXCEPT ![k] = served(made.err, <<>>)] /\ UNCHANGED store
           ELSE IF rec.pc = "failed"
           THEN ing' = [ing EXCEPT ![k] = served("HTTP500", chunks)] /\ UNCHANGED store
           ELSE /\ Upsert(embedded, TRUE)
                /\ ing' = [ing EXCEPT ![k] =
                              served(IF UpsertError(embedded, TRUE) = Ok THEN Ok
                                     ELSE "HTTP500", chunks)]
        /\ UNCHANGED <<run, pure>>

NextIngest ==
    \E k \in Requests, payload \in Payloads, file \in Files, ok \in BOOLEAN :
        Ingest(k, payload, file, ok)

SpecIngest == Init /\ [][NextIngest]_vars

\* The requests of a client that sends a text again: raw texts of the same
\* canonical text and one of another, under each doc_type, no file.
ResentTexts == {{<<"a", " ", " ", "b", "\r", "\n">>}, {<<"a", " ", "b">>}, {<<"b">>}}
ResentPayloads ==
    {IngestRequest(t, r, {}) : t \in {"txt", "json", "pdf"}, r \in ResentTexts}

\* ingest requests and delete_by_doc calls on the store they write to
NextReingest ==
    \/ \E k \in Requests, payload \in ResentPayloads, ok \in BOOLEAN :
          Ingest(k, payload, {}, ok)
    \/ \E k \in Requests :
          DeleteByDoc(DocId(k)) /\ UNCHANGED <<run, pure, ing>>

SpecReingest == Init /\ [][NextReingest]_vars

TypeOK ==
    /\ fresh \in 0..MaxFresh
    /\ DOMAIN origin = DOMAIN points
    /\ \A r \in Runs : run[r].pc \in {"idle", "chunked", "embedded", "done", "failed"}

(***************************************************************************)
(* Claims about the vector store                                           *)
(***************************************************************************)
ItemA == EmbeddedChunk(Chunk(C1Id, "d1", "a", Meta({"pdf"}, {})), "list", <<1, 0>>)
ItemB == EmbeddedChunk(Chunk(C1Id, "d1", "b", Meta({"pdf"}, {})), "values", <<0, 1>>)
ItemOther == EmbeddedChunk(Chunk(C2Id, "d2", "b", Meta({"txt"}, {"d1"})), "list", <<-2, 0>>)

QResp == resp["qdrant"]
Results == CHOOSE r \in QResp.ret : TRUE        \* the list query returned
Returned == last.op = "query" /\ QResp.err = Ok /\ QResp.ret # {}
\* the stored entries that were upserted for chunk_id cid
EntriesOf(cid) == {p \in DOMAIN points : origin[p] = cid}
\* the i-th item is the last one of the batch with its chunk_id
LastOfItsId(items, i) ==
    \A j \in 1..Len(items) : j > i => items[j].chunk.chunk_id # items[i].chunk.chunk_id
\* the stored entry p carries the vector and payload of item
Carries(p, item) ==
    /\ points[p].vector = item.vector.values
    /\ points[p].payload.text = item.chunk.text
    /\ points[p].payload.metadata = item.chunk.metadata
    /\ points[p].payload.doc_id = item.chunk.doc_id
AllChunkIds == {it.chunk.chunk_id : it \in SampleItems}

\* what a successful upsert has stored for the chunk ids in S
UpsertStored(S) ==
    (last.op = "upsert" /\ QResp.err = Ok) =>
        \A i \in 1..Len(last.items) :
            (last.items[i].chunk.chunk_id \in S /\ LastOfItsId(last.items, i)) =>
                \E p \in EntriesOf(last.items[i].chunk.chunk_id) : Carries(p, last.items[i])
\* a step that is neither a successful upsert of cid nor a delete keeps the
\* entries of cid
EntryKept(cid) ==
    \/ /\ last'.op = "upsert"
       /\ resp'["qdrant"].err = Ok
       /\ \E i \in 1..Len(last'.items) : last'.items[i].chunk.chunk_id = cid
    \/ last'.op = "delete_by_doc"
    \/ {points[p] : p \in EntriesOf(cid)} = {points'[p] : p \in EntriesOf(cid)'}

\* C1 (as claimed): after any sequence of upsert calls the store holds at
\* most one entry per chunk_id and that entry carries the vector and payload
\* of the most recent upsert of that chunk_id.
C1_OneEntryPerChunkId ==
    /\ \A cid \in AllChunkIds : Cardinality(EntriesOf(cid)) <= 1
    /\ UpsertStored(AllChunkIds)

\* C1 (amended): for every non-empty chunk_id the store holds at most one
\* entry, which carries the vector and payload of the most recent successful
\* upsert of that chunk_id, and no other call but delete_by_doc changes it.
C1_IdempotentForNonEmptyId ==
    /\ [](/\ \A cid \in AllChunkIds \ {EmptyId} : Cardinality(EntriesOf(cid)) <= 1
          /\ UpsertStored(AllChunkIds \ {EmptyId}))
    /\ [][\A cid \in AllChunkIds \ {EmptyId} : EntryKept(cid)]_vars

\* the same chunk_id upserted twice with different text: one entry, second text
C1_Witness ==
    /\ last.op = "upsert" /\ QResp.err = Ok
    /\ last.items = <<ItemA, ItemB>>
    /\ Cardinality(EntriesOf(C1Id)) = 1
    /\ \A p \in EntriesOf(C1Id) : points[p].payload.text = "b"

\* the points of the store that pass the filters of a query
EligibleFor(query) ==
    {p \in DOMAIN points :
        \A k \in MetaKeys : query.filters[k] # Absent
                                => points[p].payload.metadata[k] = query.filters[k]}

\* C2: query returns at most top_k results, ordered by non-increasing score,
\* and an empty list, not an error, when no stored chunk is eligible.
C2_TopKOrdered ==
    last.op = "query" =>
        /\ Returned
        /\ Len(Results) <= last.query.top_k
        /\ \A i, j \in 1..Len(Results) : i < j => Results[i].score >= Results[j].score
        /\ EligibleFor(last.query) = {} => Results = <<>>

\* more eligible chunks than top_k, with different scores: the best top_k
C2_Witness ==
    /\ Returned
    /\ Cardinality(EligibleFor(last.query)) > last.query.top_k
    /\ Len(Results) = last.query.top_k
    /\ last.query.top_k >= 2
    /\ Results[1].score > Results[2].score

\* C3: with non-empty filters every result belongs to a stored chunk whose
\* metadata equals the required value for every filter key.
C3_FiltersConjunctive ==
    (Returned /\ last.query.filters # NoMeta) =>
        \A i \in 1..Len(Results) :
            /\ \A k \in MetaKeys : last.query.filters[k] # Absent
                                     => Results[i].metadata[k] = last.query.filters[k]
            /\ \E p \in EligibleFor(last.query) :
                  points[p].payload.chunk_id = Results[i].chunk_id

\* a filtered query against matching and non-matching chunks returns fewer
\* results than top_k, all matching
C3_Witness ==
    /\ Returned
    /\ last.query.filters = Meta({"pdf"}, {})
    /\ Len(Results) >= 1
    /\ Len(Results) < last.query.top_k
    /\ DOMAIN points \ EligibleFor(last.query) # {}

\* C4: when min_score is set no returned result has a score below it.
C4_MinScoreRespected ==
    (Returned /\ last.query.min_score # {}) =>
        \A i \in 1..Len(Results) : \A m \in last.query.min_score : Results[i].score >= m

\* C5: delete_by_doc(d) removes every chunk of d and nothing else, does not
\* fail when d has no chunk, and a following query filtered on doc_id d
\* returns an empty list.
C5_DeleteThenQueryEmpty ==
    [][/\ last'.op = "delete_by_doc" =>
            /\ resp'["qdrant"].err = Ok
            /\ \A p \in DOMAIN points' : points'[p].payload.doc_id # last'.doc_id
            /\ \A p \in DOMAIN points :
                  points[p].payload.doc_id # last'.doc_id
                      => p \in DOMAIN points' /\ points'[p] = points[p]
            /\ DOMAIN points' \subseteq DOMAIN points
       /\ (/\ last.op = "delete_by_doc"
           /\ last'.op = "query"
           /\ last'.query.filters = Meta({}, {last.doc_id}))
              => resp'["qdrant"] = Resp(Ok, {<<>>})]_vars

\* C6: querying with the exact vector stored for a chunk returns a result
\* whose chunk_id is that chunk's chunk_id, with the highest score.
C6_RoundTrip ==
    (Returned /\ last.query.filters = NoMeta) =>
        \A p \in DOMAIN points :
            points[p].vector = last.qvec =>
                \E i \in 1..Len(Results) :
                    /\ Results[i].chunk_id = origin[p]
                    /\ \A j \in 1..Len(Results) : Results[i].score >= Results[j].score

\* C7: upsert of an empty sequence returns normally and leaves the stored
\* index unchanged.
C7_EmptyUpsertNoOp ==
    [][(last'.op = "upsert" /\ last'.items = <<>>)
          => resp'["qdrant"].err = Ok /\ points' = points]_vars

\* C8: the three backends give the same answer to every call.
C8_BackendsInterchangeable ==
    \A b1, b2 \in Backends : resp[b1] = resp[b2]

\* C25: every SearchResult of query has the page_number stored for its chunk
\* at upsert, and the text, doc_id and metadata of the upserted chunk.
C25_ResultCarriesStoredPage ==
    Returned =>
        \A i \in 1..Len(Results) :
            \E p \in DOMAIN points :
                /\ points[p].payload.chunk_id = Results[i].chunk_id
                /\ Results[i].page_number = points[p].payload.page_number
                /\ Results[i].text = points[p].payload.text
                /\ Results[i].doc_id = points[p].payload.doc_id
                /\ Results[i].metadata = points[p].payload.metadata

(***************************************************************************)
(* Claims about IndexPipeline                                              *)
(***************************************************************************)
\* the index call of r has called upsert and the storage client did not fail
Stored(r) == run[r].upsertCalls = 1 /\ run[r].storeErr # "ClientError"

\* C9: index passes to upsert exactly one EmbeddedChunk per chunk of the
\* chunker, in chunk order, paired with the embedder's vector of the same
\* position, and returns that chunk count.
C9_OnePerChunkAndCount ==
    \A r \in Runs :
        Stored(r) =>
            /\ Len(run[r].embedded) = Len(run[r].chunks)
            /\ \A i \in 1..Len(run[r].embedded) :
                  /\ run[r].embedded[i].chunk = run[r].chunks[i]
                  /\ run[r].embedded[i].vector = run[r].vectors[i]
            /\ run[r].ret = {Len(run[r].chunks)}

\* C10: when the embedding call fails the stored index is unchanged; the
\* embedder is called once, before any upsert; upsert is not called after an
\* embedding failure; neither call is repeated.
C10_NoUpsertAfterEmbedFailure ==
    /\ [](\A r \in Runs :
            /\ run[r].embedCalls <= 1 /\ run[r].upsertCalls <= 1
            /\ run[r].upsertCalls = 1 => run[r].embedCalls = 1 /\ run[r].embedErr = Ok
            /\ run[r].embedErr # Ok => run[r].pc = "failed" /\ run[r].ret = {})
    /\ [][\A r \in Runs :
            (run[r].embedErr = Ok /\ run'[r].embedErr # Ok)
                => points' = points /\ last' = last]_vars

\* an embedding failure of a document while chunks of an earlier index call
\* are stored
C10_Witness ==
    \E r \in Runs :
        /\ run[r].embedErr = "EmbedError"
        /\ run[r].embedCalls = 1
        /\ Len(run[r].chunks) = 2
        /\ DOMAIN points # {}

\* the document the index call of r was given
DocOf(r) == CHOOSE d \in run[r].doc : TRUE
\* both callers have indexed documents of the same content to the end
BothIndexed ==
    /\ \A r \in Runs : run[r].pc = "done"
    /\ DocOf("r1").ref.checksum = DocOf("r2").ref.checksum

Raised(rec) ==
    IF rec.chunkErr # Ok THEN rec.chunkErr
    ELSE IF rec.embedErr # Ok THEN rec.embedErr
    ELSE rec.storeErr

\* C14: a failing index call raises IndexingError, whichever stage failed,
\* and no other kind of error leaves index.
C14_OnlyIndexingError ==
    \A r \in Runs : run[r].pc = "failed" => Raised(run[r]) = "IndexingError"

\* C19: with a pipeline built with a MetadataBuilder every piece of an indexed
\* document becomes a chunk whose metadata holds every key and value of
\* build_document_metadata(doc.ref).
C19_BuilderMetadataOnChunks ==
    \A r \in Runs : run[r].doc # {} =>
        LET built == build_document_metadata(CoopWise, DocOf(r).ref)
        IN  /\ run[r].chunkErr = Ok
            /\ Len(run[r].chunks) = Len(split_text(DocOf(r).text))
            /\ \A i \in 1..Len(run[r].chunks) : \A k \in MetaKeys :
                  built[k] # Absent => run[r].chunks[i].metadata[k] = built[k]

\* C20: when the constructor creates the collection, for the embedder's
\* dimensionality detected or supplied as vector_size, the collection's vector
\* size is that dimensionality, the length of every vector of the embedder.
C20_CollectionSizedToEmbedder ==
    (/\ prov.done /\ prov.err = Ok /\ prov.existed = {}
     /\ prov.arg \in {{}, {prov.embedder.dim}})
        => /\ prov.vector_size = {prov.embedder.dim}
           /\ prov.collection = {prov.embedder.dim}

\* C21: a plain numeric sequence, an object with a values attribute and an
\* array-like object are each converted to the flat list of their numbers;
\* every other shape fails with the vector-format error (the ValueError of
\* _extract_vector) that names the type of the argument, never with an error
\* of another kind.
C21_VectorFormatNormalized ==
    ext.done =>
        /\ ext.vector.kind \in Supported
              => ext.out.ok /\ ext.out.err = Ok /\ ext.out.value = ext.vector.values
        /\ ext.vector.kind \in Unsupported
              => /\ ~ext.out.ok
                 /\ ext.out.err = "ValueError"
                 /\ ext.out.names = TypeName(ext.vector.kind)

(***************************************************************************)
(* Claims about the chunkers                                               *)
(***************************************************************************)
\* the chunks the chunk calls returned, each with the checksum of its document
ChunksOut ==
    UNION {{[chunk |-> chk[s].out[i],
             checksum |-> (CHOOSE d \in chk[s].doc : TRUE).ref.checksum] :
               i \in 1..Len(chk[s].out)} : s \in ChunkSlots}
\* the discriminator of a chunk: the strategy that issued it, its page number
\* and its position index
Disc(c) ==
    <<c.metadata["json_flattened"], c.metadata["html_extracted"],
      c.metadata["pdf_page_aware"], c.page_number, c.metadata["chunk_index"]>>
\* C13 (as claimed): two chunks that differ in doc_id or in discriminator
\* have different chunk_ids.
C13_NoCollisionAcrossDocIds ==
    \A x, y \in ChunksOut :
        (x.chunk.doc_id # y.chunk.doc_id \/ Disc(x.chunk) # Disc(y.chunk))
            => x.chunk.chunk_id # y.chunk.chunk_id

\* C13 (amended): two chunks have the same chunk_id exactly when their
\* documents have the same checksum and their discriminators are equal,
\* whatever their doc_ids; the chunks of one chunk call have different ids.
C13_NoCollisionAcrossChecksums ==
    /\ \A x, y \in ChunksOut :
          x.chunk.chunk_id = y.chunk.chunk_id
              <=> (x.checksum = y.checksum /\ Disc(x.chunk) = Disc(y.chunk))
    /\ \A s \in ChunkSlots : \A i, j \in 1..Len(chk[s].out) :
          i # j => chk[s].out[i].chunk_id # chk[s].out[j].chunk_id

\* a page-aware PDF of three chunks and the page-less PDF of the same
\* content under another doc_id: five chunks, five ids
C13_Witness ==
    /\ \E d \in chk[1].doc : d.pages # {} /\ d.ref.doc_type = "pdf" /\ d.ref.doc_id = "d1"
    /\ \E d \in chk[2].doc : d.pages = {} /\ d.ref.doc_type = "pdf" /\ d.ref.doc_id = "d2"
    /\ Len(chk[1].out) = 3 /\ Len(chk[2].out) = 2
    /\ Cardinality({x.checksum : x \in ChunksOut}) = 1
    /\ Cardinality({x.chunk.chunk_id : x \in ChunksOut}) = 5

\* the document of the chunk call of s
ChunkDoc(s) == CHOOSE d \in chk[s].doc : TRUE
\* the pieces of each page with the 1-based index of the page and their
\* position in the page, page after page
PagePieces(pages) ==
    Flat([p \in 1..Len(pages) |->
            [i \in 1..Len(split_text(pages[p])) |->
                [page |-> p, index |-> i - 1, text |-> split_text(pages[p])[i]]]])
\* doc.pages holds at least one page
HasPages(doc) == doc.pages # {} /\ doc.pages # {<<>>}

\* C22: for a PDF with pages each page is split on its own, the chunks come in
\* page order and then in the order of the page, each with page_number and
\* metadata page_number the 1-based index of its page in doc.pages (blank
\* pages give no chunk and shift no number) and pdf_page_aware true; without
\* pages the whole text is split and every chunk has pdf_page_aware false.
C22_PageAwareChunks ==
    \A s \in ChunkSlots :
        (chk[s].doc # {} /\ ChunkDoc(s).ref.doc_type = "pdf") =>
            LET out == chk[s].out
                want == PagePieces(Val(ChunkDoc(s).pages))
                whole == split_text(ChunkDoc(s).text)
            IN  IF HasPages(ChunkDoc(s))
                THEN /\ Len(out) = Len(want)
                     /\ \A n \in 1..Len(out) :
                           /\ out[n].text = want[n].text
                           /\ out[n].page_number = {want[n].page}
                           /\ out[n].metadata["page_number"] = {want[n].page}
                           /\ out[n].metadata["chunk_index"] = {want[n].index}
                           /\ out[n].metadata["pdf_page_aware"] = {TRUE}
                ELSE /\ Len(out) = Len(whole)
                     /\ \A n \in 1..Len(out) :
                           /\ out[n].text = whole[n]
                           /\ out[n].metadata["pdf_page_aware"] = {FALSE}

\* a PDF whose second page is blank and whose third page has two pieces, and
\* the same PDF without pages: chunks of pages 1, 3, 3, and two chunks that
\* are not page aware
C22_Witness ==
    /\ chk[1].doc # {} /\ chk[2].doc # {}
    /\ ChunkDoc(1).ref.doc_type = "pdf" /\ ChunkDoc(2).ref.doc_type = "pdf"
    /\ ChunkDoc(1).pages = {<<<<"a">>, <<" ">>, <<"a", "\n", "b">>>>}
    /\ [n \in 1..Len(chk[1].out) |-> chk[1].out[n].page_number] = <<{1}, {3}, {3}>>
    /\ [n \in 1..Len(chk[1].out) |-> chk[1].out[n].text] = <<"a", "a", "b">>
    /\ ~HasPages(ChunkDoc(2))
    /\ Len(chk[2].out) = 2
    /\ \A n \in 1..2 : chk[2].out[n].metadata["pdf_page_aware"] = {FALSE}

\* C18: chunk leaves base_metadata unchanged and every chunk keeps the value
\* of every base_metadata key other than page_number.
C18_MergeNonDestructive ==
    \A s \in ChunkSlots :
        /\ chk[s].baseAfter = chk[s].base
        /\ \A i \in 1..Len(chk[s].out) : \A k \in MetaKeys \ {"page_number"} :
              chk[s].base[k] # Absent => chk[s].out[i].metadata[k] = chk[s].base[k]

(***************************************************************************)
(* Claims about normalization                                              *)
(***************************************************************************)
Canonical == CHOOSE o \in norm.output : TRUE
\* the lines of a string, each as the set of its characters
RECURSIVE Lines(_)
Lines(text) ==
    LET n == RunLen(text, (Chars \cup Range(Example)) \ {"\n"})
    IN  IF n = Len(text) THEN <<Range(text)>>
        ELSE <<Range(SubSeq(text, 1, n))>> \o Lines(Drop(text, n + 1))
\* lines i and i+1 of a string both hold nothing but white space
TwoBlankLines(text) ==
    \E i \in 1..(Len(Lines(text)) - 1) :
        Lines(text)[i] \subseteq Whitespace /\ Lines(text)[i + 1] \subseteq Whitespace
\* what every result of normalize_text has: no carriage return, no tab and
\* no two spaces in a row, no white space at either end
Trimmed(o) ==
    /\ \A i \in 1..Len(o) : o[i] \notin {"\r", "\t"}
    /\ \A i \in 1..(Len(o) - 1) : ~(o[i] = " " /\ o[i + 1] = " ")
    /\ o # <<>> => o[1] \notin Whitespace /\ o[Len(o)] \notin Whitespace
ExampleOut ==
    <<"Hello", " ", "world.", "\n", "\n", "This", " ", "is", " ", "a", " ", "test.">>

\* C16 (as claimed): the result of normalize_text has no carriage return,
\* single spaces for runs of spaces and tabs, never two blank lines in a
\* row, no white space at either end; the example; the checksum is the
\* SHA-256 of the result.
C16_Canonical ==
    norm.output # {} =>
        /\ Trimmed(Canonical)
        /\ ~TwoBlankLines(Canonical)
        /\ norm.input = Example => Canonical = ExampleOut
        /\ norm.checksum = {sha256(Canonical)}

\* C16 (amended): as claimed, but of blank lines only this: the result never
\* has three line feeds in a row (two empty lines); a line holding one space
\* is kept and may follow another blank line.
C16_CanonicalEmptyLines ==
    norm.output # {} =>
        /\ Trimmed(Canonical)
        /\ \A i \in 1..(Len(Canonical) - 2) :
              ~(Canonical[i] = "\n" /\ Canonical[i + 1] = "\n" /\ Canonical[i + 2] = "\n")
        /\ norm.input = Example => Canonical = ExampleOut
        /\ norm.checksum = {sha256(Canonical)}

\* the example of the claim has been normalized
C16_Witness ==
    /\ norm.input = Example
    /\ norm.output = {ExampleOut}
    /\ norm.checksum = {sha256(ExampleOut)}

\* C26: normalize_text is idempotent: applied to its own result it returns
\* that result, so the checksum of re-normalized canonical text is the same.
C26_NormalizeIdempotent ==
    norm.output # {} =>
        /\ norm.again = norm.output
        /\ {sha256(t) : t \in norm.again} = norm.checksum

\* a string with a carriage return, blanks and line feeds that normalization
\* changes into a text of several lines, which normalizing again leaves alone
C26_Witness ==
    /\ norm.output # {}
    /\ "\r" \in Range(norm.input)
    /\ Canonical # norm.input
    /\ {"a", " ", "\n"} \subseteq Range(Canonical)
    /\ norm.again = {Canonical}

(***************************************************************************)
(* Claims about ingestion                                                  *)
(***************************************************************************)
ChunkIds(k) == [i \in 1..Len(ing[k].chunks) |-> ing[k].chunks[i].chunk_id]
\* request k produced a NormalizedDocument
Produced(k) == ing[k].done /\ ing[k].route.doc # {}
RouteDoc(k) == Val(ing[k].route.doc)

\* C12: two ingestions of the same raw input under the same doc_type yield
\* the same checksum and the same sequence of chunk_ids, whatever doc_id and
\* created_at each was given.
C12_DeterministicIdentity ==
    \A j, k \in Requests :
        (/\ Produced(j) /\ Produced(k)
         /\ ing[j].payload = ing[k].payload /\ ing[j].file = ing[k].file)
            => /\ RouteDoc(j).ref.checksum = RouteDoc(k).ref.checksum
               /\ ChunkIds(j) = ChunkIds(k)
               /\ Val(ing[j].normalizer.doc).ref.checksum
                     = Val(ing[k].normalizer.doc).ref.checksum

\* the same two-chunk text ingested twice under different doc_ids and
\* creation times: the same ids
C12_Witness ==
    /\ Produced(1) /\ Produced(2)
    /\ ing[1].payload = ing[2].payload /\ ing[1].file = ing[2].file
    /\ RouteDoc(1).ref.doc_id # RouteDoc(2).ref.doc_id
    /\ RouteDoc(1).ref.created_at # RouteDoc(2).ref.created_at
    /\ Len(ChunkIds(1)) = 2
    /\ ChunkIds(1) = ChunkIds(2)

\* a source is supplied when its field holds a non-empty string, the file
\* when one is attached
Given(opt) == opt # {} /\ opt # {<<>>}
\* the outcome of normalization when text is the text of the source named
Uses(out, name, text) ==
    /\ out.source = name
    /\ out.err \in {Ok, "HTTP400"}
    /\ out.err = "HTTP400" <=> normalize_text(text) = <<>>
    /\ out.err = Ok => /\ out.doc # {}
                       /\ Val(out.doc).text = normalize_text(text)
    /\ out.err # Ok => out.doc = {}

\* C15: raw_text is used when supplied, else json_text, else the text
\* extracted from the file; with no source normalization fails with an input
\* error and produces no document; the route and DocumentNormalizer.normalize
\* choose the same source.
C15_SourcePrecedence ==
    \A k \in Requests : ing[k].done =>
        LET p == ing[k].payload
            out == ing[k].route
        IN  /\ Given(p.raw_text) => Uses(out, "raw_text", Val(p.raw_text))
            /\ (~Given(p.raw_text) /\ Given(p.json_text))
                  => Uses(out, "json_text", Val(p.json_text))
            /\ (~Given(p.raw_text) /\ ~Given(p.json_text) /\ ing[k].file # {})
                  => /\ out.source = "file"
                     /\ LET got == _extract_text_from_file(p.doc_type, Val(ing[k].file))
                        IN  got.err = Ok => Uses(out, "file", got.text)
            /\ (~Given(p.raw_text) /\ ~Given(p.json_text) /\ ing[k].file = {})
                  => out.err = "HTTP422" /\ out.doc = {}
            /\ ing[k].normalizer.source = out.source
            /\ ing[k].normalizer.err = out.err
            /\ out.doc # {} => Val(ing[k].normalizer.doc).text = Val(out.doc).text

\* all three sources supplied and the raw text used, normalized
C15_Witness ==
    \E k \in Requests :
        /\ ing[k].done
        /\ Given(ing[k].payload.raw_text) /\ Given(ing[k].payload.json_text)
        /\ ing[k].file # {}
        /\ ing[k].route.source = "raw_text"
        /\ ing[k].normalizer.source = "raw_text"
        /\ Produced(k) /\ RouteDoc(k).text = <<"a", " ", "b">>

\* C17: a json-typed input that is not valid JSON is never an error: read_json
\* returns text for the file, and JsonChunker chunks the text as plain text.
C17_MalformedJsonDegrades ==
    \A k \in Requests :
        (ing[k].done /\ ing[k].payload.doc_type = "json") =>
            /\ (ing[k].route.source = "file"
                 /\ json_loads(read_txt(Val(ing[k].file))) = {})
                    => ing[k].route.err \in {Ok, "HTTP400"}
            /\ (Produced(k) /\ json_loads(RouteDoc(k).text) = {})
                    => ing[k].chunks = TextChunk(RouteDoc(k), BaseMeta)

\* both requests were indexed, with the same canonical text and doc_type
SameContentTwice ==
    /\ \A k \in Requests : Produced(k) /\ ing[k].status = Ok
    /\ RouteDoc(1).text = RouteDoc(2).text
    /\ RouteDoc(1).ref.doc_type = RouteDoc(2).ref.doc_type
\* the store holds one entry for each chunk of request k and nothing else,
\* every entry under the doc_id of request k
OwnedBy(k) ==
    /\ DOMAIN points = {uuid5(ing[k].chunks[i].chunk_id) : i \in 1..Len(ing[k].chunks)}
    /\ Cardinality(DOMAIN points) = Len(ing[k].chunks)
    /\ \A p \in DOMAIN points : points[p].payload.doc_id = RouteDoc(k).ref.doc_id

\* C23: two ingestions of the same canonical text and doc_type get different
\* doc_ids and the same chunk_ids; after the second the store holds one entry
\* per chunk, under the doc_id of the second and none under the doc_id of the
\* first; delete_by_doc of the first doc_id then removes nothing and
\* delete_by_doc of the second removes every entry.
C23_LaterIngestionOwns ==
    /\ [](SameContentTwice =>
            /\ RouteDoc(1).ref.doc_id # RouteDoc(2).ref.doc_id
            /\ ChunkIds(1) = ChunkIds(2)
            /\ last.op = "upsert" =>
                  /\ OwnedBy(2)
                  /\ \A p \in DOMAIN points :
                        points[p].payload.doc_id # RouteDoc(1).ref.doc_id)
    /\ [][(SameContentTwice /\ OwnedBy(2) /\ last'.op = "delete_by_doc")
            => /\ last'.doc_id = RouteDoc(1).ref.doc_id => points' = points
               /\ last'.doc_id = RouteDoc(2).ref.doc_id => points' = EmptyMap]_vars

\* a text of two chunks sent twice in different raw forms, then delete_by_doc
\* of the first doc_id: both entries are still there, under the second doc_id
C23_Witness ==
    /\ SameContentTwice
    /\ ing[1].payload.raw_text # ing[2].payload.raw_text
    /\ Len(ing[2].chunks) = 2
    /\ last.op = "delete_by_doc" /\ last.doc_id = RouteDoc(1).ref.doc_id
    /\ OwnedBy(2)

\* C24: every NormalizedDocument of the route and of
\* DocumentNormalizer.normalize has pages = None, whatever the doc_type and
\* the source, so every chunk of an ingested PDF, as returned by the chunker
\* and as stored, has pdf_page_aware false and no page_number.
C24_IngestedPdfNeverPageAware ==
    \A k \in Requests : ing[k].done =>
        /\ \A d \in ing[k].route.doc \cup ing[k].normalizer.doc : d.pages = {}
        /\ ing[k].payload.doc_type = "pdf" =>
              /\ \A i \in 1..Len(ing[k].chunks) :
                    /\ ing[k].chunks[i].metadata["pdf_page_aware"] = {FALSE}
                    /\ ing[k].chunks[i].page_number = {}
                    /\ ing[k].chunks[i].metadata["page_number"] = Absent
              /\ ing[k].status = Ok =>
                    \A i \in 1..Len(ing[k].chunks) :
                        \E p \in EntriesOf(ing[k].chunks[i].chunk_id) :
                            /\ points[p].payload.metadata["pdf_page_aware"] = {FALSE}
                            /\ points[p].payload.page_number = {}

\* a PDF file of two pages ingested and stored: two chunks, neither page aware
C24_Witness ==
    \E k \in Requests :
        /\ ing[k].done /\ ing[k].status = Ok
        /\ ing[k].payload.doc_type = "pdf"
        /\ ing[k].route.source = "file"
        /\ Len(Val(PdfPages(Val(ing[k].file)))) = 2
        /\ RouteDoc(k).pages = {}
        /\ Len(ing[k].chunks) = 2
        /\ \A i \in 1..2 : \E p \in EntriesOf(ing[k].chunks[i].chunk_id) :
              points[p].payload.metadata["pdf_page_aware"] = {FALSE}

====
